---- MODULE Spec2Model ----
(***************************************************************************)
(* interviewAlarm: the slot store (src/database/db.py), the add / remove   *)
(* command handlers (src/bot/handlers.py) and the polling sweep            *)
(* (src/monitor/scheduler.py), as one state machine.                       *)
(*                                                                         *)
(* Everything runs on one asyncio event loop, so the code between two      *)
(* awaits runs without interleaving.  scrape_needle_page and every         *)
(* Database method are synchronous calls; the sweep suspends only at       *)
(* `await bot.send_message` (sweep_pc = "send") and at                     *)
(* `await asyncio.sleep(1)` (sweep_pc = "sleep").  A command handler runs  *)
(* only while the sweep is idle or suspended; each action below is the     *)
(* code from one await to the next.                                        *)
(*                                                                         *)
(* Specifications: Spec is the application as main.py runs it (commands    *)
(* and sweeps, the scheduler started once); MainSpec is the process from   *)
(* the start of main(), under any configuration; DbSpec is one call of a   *)
(* direct caller on any database, TrackedSpec the same for the calls on    *)
(* tracked_urls; SeedSpec follows one registration and the sweeps after    *)
(* it; SchedSpec is a MonitorScheduler under start() and stop() calls;     *)
(* FaultSpec is the sweep on a Database whose calls may raise.             *)
(*                                                                         *)
(* Left out of the rows: company_name, detected_at and the surrogate id of *)
(* a time_slots row (none of them is read by the code modelled here);      *)
(* created_at, read by get_user_tracked_urls alone, is carried by the rows *)
(* of TrackedSpec.  time_slots is a bag of rows, so that a duplicate row   *)
(* would be visible.                                                       *)
(***************************************************************************)
EXTENDS Integers, Sequences, FiniteSets, Bags, TLC

\* ------------------------------------------------------------- bounds
\* AUTOINCREMENT ids handed out by tracked_urls in one run of the model.
MaxId == 2
\* Longest slot list a scrape (or a caller of the Database) passes.
MaxFetch == 2
\* Longest slot list the scrape of a registration (/add) returns.
MaxSeed == 1

\* Value domains: Telegram user ids, page urls and slots.  Times are opaque
\* values compared for equality (start times are ordered by ORDER BY).  The
\* slots: one start time with two end times, and a second start time.
Users == {1, 2}
Urls == {"X"}
Slots == {[start_time |-> 1, end_time |-> 1], [start_time |-> 1, end_time |-> 2],
          [start_time |-> 2, end_time |-> 2]}
FetchLists == UNION {[1..n -> Slots] : n \in 0..MaxFetch}
StartTimeLists == UNION {[1..n -> {slot.start_time : slot \in Slots}] : n \in 0..MaxFetch}
SeedLists == UNION {[1..n -> Slots] : n \in 0..MaxSeed}

VARIABLES
    tracked_urls,   \* table tracked_urls: set of [id, user_id, url]
    seq_tracked,    \* sqlite_sequence of tracked_urls: the last id handed out
    time_slots,     \* table time_slots: bag of [tracked_url_id, start_time, end_time, is_notified]
    sweep_pc,       \* where check_all_urls / check_url stands
    listing,        \* check_all_urls: tracked_urls as read at the start of the sweep
    idx,            \* check_all_urls: position of the for loop in listing
    new_slots,      \* check_url: what get_new_slots returned
    results,        \* outcome of every check_url of this sweep so far, in order
    call,           \* the Database call just made by a direct caller (DbSpec), with its result
    registered,     \* the registration followed in SeedSpec: its id, the slots its
                    \* scrape returned, and how the later scrapes of the url compare
    scheduler_running,  \* MonitorScheduler.scheduler.running
    jobs,           \* the jobs of MonitorScheduler.scheduler: bag of job ids
    instances,      \* runs of check_all_urls in progress
    main_pc,        \* where main() stands
    config,         \* the attributes of class Config
    check_interval_minutes  \* MonitorScheduler.check_interval_minutes: <<>> while no
                    \* MonitorScheduler is constructed, else <<minutes>>

vars == <<tracked_urls, seq_tracked, time_slots, sweep_pc, listing, idx,
          new_slots, results, call, registered, scheduler_running, jobs, instances,
          main_pc, config, check_interval_minutes>>

dbvars == <<tracked_urls, seq_tracked, time_slots>>
sweepvars == <<sweep_pc, listing, idx, new_slots, results>>
schedvars == <<scheduler_running, jobs, instances>>
mainvars == <<main_pc, config, check_interval_minutes>>

\* ------------------------------------------------------------ helpers
Range(s) == {s[i] : i \in 1..Len(s)}

\* sqlite3.connect() leaves PRAGMA foreign_keys at its default, OFF: the
\* ON DELETE CASCADE of time_slots.tracked_url_id is declared, not enforced.
foreign_keys == FALSE

\* Rows of a bag that satisfy / do not satisfy a condition, with their counts.
Rows(ts) == DOMAIN ts

SlotRow(tracked_url_id, slot, is_notified) ==
    [tracked_url_id |-> tracked_url_id, start_time |-> slot.start_time,
     end_time |-> slot.end_time, is_notified |-> is_notified]

SameKey(row, tracked_url_id, start_time) ==
    row.tracked_url_id = tracked_url_id /\ row.start_time = start_time

\* ----------------------------------------------------------- Database
\* add_tracked_url on a table without UNIQUE(user_id, url): every INSERT succeeds.
add_tracked_url_no_unique(tu, sq, user_id, url) ==
    [ret |-> <<sq + 1>>,
     tracked_urls |-> tu \cup {[id |-> sq + 1, user_id |-> user_id, url |-> url]},
     seq |-> sq + 1]

\* add_tracked_url on a table whose id is INTEGER PRIMARY KEY without
\* AUTOINCREMENT: the new id is one more than the largest id in the table.
add_tracked_url_max_rowid(tu, sq, user_id, url) ==
    IF \E r \in tu : r.user_id = user_id /\ r.url = url
    THEN [ret |-> <<>>, tracked_urls |-> tu, seq |-> sq]
    ELSE LET id == IF tu = {} THEN 1
                   ELSE 1 + (CHOOSE i \in {r.id : r \in tu} : \A r \in tu : r.id <= i)
         IN [ret |-> <<id>>,
             tracked_urls |-> tu \cup {[id |-> id, user_id |-> user_id, url |-> url]},
             seq |-> sq + 1]

\* INSERT INTO tracked_urls ... ; IntegrityError on UNIQUE(user_id, url) -> None.
\* An Optional[int] is <<>> (None) or <<id>>.
add_tracked_url(tu, sq, user_id, url) ==
    IF \E r \in tu : r.user_id = user_id /\ r.url = url
    THEN [ret |-> <<>>, tracked_urls |-> tu, seq |-> sq]
    ELSE [ret |-> <<sq + 1>>,
          tracked_urls |-> tu \cup {[id |-> sq + 1, user_id |-> user_id, url |-> url]},
          seq |-> sq + 1]

\* remove_tracked_url whose DELETE has no `user_id = ?`: every user's row of
\* the url goes.
remove_tracked_url_by_url(tu, ts, user_id, url) ==
    LET gone == {r \in tu : r.url = url}
    IN [ret |-> gone # {},
        tracked_urls |-> tu \ gone,
        time_slots |-> ts]

\* DELETE FROM tracked_urls WHERE user_id = ? AND url = ?; rowcount > 0.
remove_tracked_url(tu, ts, user_id, url) ==
    LET gone == {r \in tu : r.user_id = user_id /\ r.url = url}
        ids == {r.id : r \in gone}
    IN [ret |-> gone # {},
        tracked_urls |-> tu \ gone,
        time_slots |-> IF foreign_keys
                       THEN [x \in {y \in Rows(ts) : y.tracked_url_id \notin ids} |-> ts[x]]
                       ELSE ts]

\* SELECT id, url, created_at FROM tracked_urls WHERE user_id = ?
\* ORDER BY created_at DESC: the rows of the user, latest created_at first.
\* SQL leaves the order of rows with equal created_at open, so this is the
\* set of the lists the query may return.  (The rows carry created_at in
\* TrackedSpec only.)
get_user_tracked_urls(tu, user_id) ==
    LET mine == {[id |-> r.id, url |-> r.url, created_at |-> r.created_at] :
                    r \in {q \in tu : q.user_id = user_id}}
        n == Cardinality(mine)
    IN {s \in [1..n -> mine] :
           /\ \A i \in 1..n, j \in 1..n : s[i] = s[j] => i = j
           /\ \A i \in 1..n, j \in 1..n : i < j => s[i].created_at >= s[j].created_at}

\* SELECT id, user_id, url FROM tracked_urls: rows in rowid order.
RECURSIVE ById(_)
ById(tu) ==
    IF tu = {} THEN <<>>
    ELSE LET first == CHOOSE r \in tu : \A q \in tu : r.id <= q.id
         IN <<first>> \o ById(tu \ {first})

\* get_all_tracked_urls that reads user_id off the first row for every row.
get_all_tracked_urls_first_user(tu) ==
    LET rows == ById(tu)
    IN [i \in 1..Len(rows) |-> [rows[i] EXCEPT !.user_id = rows[1].user_id]]

get_all_tracked_urls(tu) == ById(tu)

\* INSERT OR IGNORE: the row is dropped when a stored row has its key.
InsertOrIgnore(ts, row) ==
    IF \E x \in Rows(ts) : SameKey(x, row.tracked_url_id, row.start_time)
    THEN ts
    ELSE ts (+) SetToBag({row})

\* A plain INSERT on a table without UNIQUE(tracked_url_id, start_time).
InsertPlain(ts, row) == ts (+) SetToBag({row})

\* One INSERT OR REPLACE INTO time_slots: the rows that conflict on
\* UNIQUE(tracked_url_id, start_time) are deleted, then the row is inserted.
InsertOrReplace(ts, row) ==
    LET kept == {x \in Rows(ts) : ~SameKey(x, row.tracked_url_id, row.start_time)}
    IN [x \in kept \cup {row} |-> IF x = row THEN 1 ELSE ts[x]]

RECURSIVE save_time_slots(_, _, _, _)
save_time_slots(ts, tracked_url_id, slots, is_notified) ==
    IF slots = <<>> THEN ts
    ELSE save_time_slots(InsertOrReplace(ts, SlotRow(tracked_url_id, Head(slots), is_notified)),
                         tracked_url_id, Tail(slots), is_notified)

\* SELECT ... FROM time_slots WHERE tracked_url_id = ? ORDER BY start_time ASC.
RECURSIVE ByStart(_)
ByStart(b) ==
    IF b = EmptyBag THEN <<>>
    ELSE LET first == CHOOSE r \in DOMAIN b : \A q \in DOMAIN b : r.start_time <= q.start_time
         IN <<[start_time |-> first.start_time, end_time |-> first.end_time,
               is_notified |-> first.is_notified]>>
            \o ByStart(b (-) SetToBag({first}))

\* get_time_slots with ORDER BY start_time DESC.
get_time_slots_desc(ts, tracked_url_id) ==
    LET asc == ByStart([x \in {y \in Rows(ts) : y.tracked_url_id = tracked_url_id} |-> ts[x]])
    IN [i \in 1..Len(asc) |-> asc[Len(asc) + 1 - i]]

get_time_slots(ts, tracked_url_id) ==
    ByStart([x \in {y \in Rows(ts) : y.tracked_url_id = tracked_url_id} |-> ts[x]])

\* get_new_slots that returns the new slots newest first instead of in the
\* order of the list passed.
get_new_slots_reversed(ts, tracked_url_id, slots) ==
    LET db_slots == get_time_slots(ts, tracked_url_id)
        db_slot_tuples == {<<s.start_time, s.end_time>> : s \in Range(db_slots)}
        kept == SelectSeq(slots, LAMBDA slot : <<slot.start_time, slot.end_time>> \notin db_slot_tuples)
    IN [i \in 1..Len(kept) |-> kept[Len(kept) + 1 - i]]

\* get_new_slots comparing start_time alone (the comparison the tests in
\* src/tests/test_database_bug.py guard against).
get_new_slots_by_start(ts, tracked_url_id, slots) ==
    LET db_slots == get_time_slots(ts, tracked_url_id)
        db_start_times == {s.start_time : s \in Range(db_slots)}
    IN SelectSeq(slots, LAMBDA slot : slot.start_time \notin db_start_times)

\* get_new_slots that compares with the notified rows alone: a slot stored
\* with is_notified = 0 counts as new again.
get_new_slots_unnotified(ts, tracked_url_id, slots) ==
    LET db_slots == SelectSeq(get_time_slots(ts, tracked_url_id), LAMBDA s : s.is_notified)
        db_slot_tuples == {<<s.start_time, s.end_time>> : s \in Range(db_slots)}
    IN SelectSeq(slots, LAMBDA slot : <<slot.start_time, slot.end_time>> \notin db_slot_tuples)

\* get_new_slots whose SELECT has no `WHERE tracked_url_id = ?`: the list is
\* compared with the rows of every id.
get_new_slots_any_id(ts, tracked_url_id, slots) ==
    LET db_slot_tuples == {<<x.start_time, x.end_time>> : x \in Rows(ts)}
    IN SelectSeq(slots, LAMBDA slot : <<slot.start_time, slot.end_time>> \notin db_slot_tuples)

\* The slots of the list passed whose (start_time, end_time) is no stored pair.
get_new_slots(ts, tracked_url_id, slots) ==
    LET db_slots == get_time_slots(ts, tracked_url_id)
        db_slot_tuples == {<<s.start_time, s.end_time>> : s \in Range(db_slots)}
    IN SelectSeq(slots, LAMBDA slot : <<slot.start_time, slot.end_time>> \notin db_slot_tuples)

\* mark_slots_notified whose UPDATE has no `AND start_time IN (...)`: every
\* row of the id is marked.
mark_slots_notified_all(ts, tracked_url_id, start_times) ==
    IF start_times = <<>> THEN ts
    ELSE LET hit(x) == x.tracked_url_id = tracked_url_id
             upd(x) == IF hit(x) THEN [x EXCEPT !.is_notified = TRUE] ELSE x
             unset(r) == [r EXCEPT !.is_notified = FALSE]
         IN [r \in {upd(x) : x \in Rows(ts)} |->
                IF hit(r)
                THEN CopiesIn(r, ts) + CopiesIn(unset(r), ts)
                ELSE ts[r]]

\* UPDATE time_slots SET is_notified = 1 WHERE tracked_url_id = ? AND start_time IN (...).
mark_slots_notified(ts, tracked_url_id, start_times) ==
    IF start_times = <<>> THEN ts
    ELSE LET hit(x) == x.tracked_url_id = tracked_url_id /\ x.start_time \in Range(start_times)
             upd(x) == IF hit(x) THEN [x EXCEPT !.is_notified = TRUE] ELSE x
             unset(r) == [r EXCEPT !.is_notified = FALSE]
         IN [r \in {upd(x) : x \in Rows(ts)} |->
                IF hit(r)
                THEN CopiesIn(r, ts) + CopiesIn(unset(r), ts)
                ELSE ts[r]]

\* No direct Database call (the value of call throughout Spec).
NoCall == [op |-> "none"]

\* ------------------------------------------------------------ commands
\* The sweep is idle or suspended at an await.
SweepSuspended == sweep_pc \in {"idle", "send", "sleep"}

\* add_command without the save of the initial slots.
add_command_no_seed(user_id, url, fetched) ==
    /\ SweepSuspended
    /\ seq_tracked < MaxId
    /\ IF fetched = <<>>
       THEN UNCHANGED dbvars
       ELSE LET added == add_tracked_url(tracked_urls, seq_tracked, user_id, url)
            IN /\ tracked_urls' = added.tracked_urls
               /\ seq_tracked' = added.seq
               /\ time_slots' = time_slots
    /\ UNCHANGED sweepvars
    /\ UNCHANGED call
    /\ UNCHANGED schedvars
    /\ UNCHANGED mainvars

\* add_command from the scrape to the seeding save; fetched is <<>> when
\* scrape_needle_page raises NeedleScraperError, else <<slots>>.  Commands
\* are taken while ids are left (MaxId).
add_command(user_id, url, fetched) ==
    /\ SweepSuspended
    /\ seq_tracked < MaxId
    /\ IF fetched = <<>>
       THEN UNCHANGED dbvars
       ELSE LET slots == fetched[1]
                added == add_tracked_url(tracked_urls, seq_tracked, user_id, url)
            IN /\ tracked_urls' = added.tracked_urls
               /\ seq_tracked' = added.seq
               /\ time_slots' = IF added.ret # <<>> /\ slots # <<>>
                                THEN save_time_slots(time_slots, added.ret[1], slots, TRUE)
                                ELSE time_slots
    /\ UNCHANGED sweepvars
    /\ UNCHANGED call
    /\ UNCHANGED schedvars
    /\ UNCHANGED mainvars

AddCommand(user_id, url, fetched) ==
    /\ add_command(user_id, url, fetched)
    /\ UNCHANGED registered

\* remove_command.
RemoveCommand(user_id, url) ==
    /\ SweepSuspended
    /\ LET removed == remove_tracked_url(tracked_urls, time_slots, user_id, url)
       IN /\ tracked_urls' = removed.tracked_urls
          /\ time_slots' = removed.time_slots
    /\ UNCHANGED <<seq_tracked>>
    /\ UNCHANGED sweepvars
    /\ UNCHANGED <<call, registered>>
    /\ UNCHANGED schedvars
    /\ UNCHANGED mainvars

\* --------------------------------------------------------------- sweep
\* add_job(...) names no max_instances: the scheduler's default, one running
\* instance per job.
max_instances == 1

\* A trigger that submits check_all_urls however many runs are in progress.
TickNoLimit ==
    /\ scheduler_running
    /\ BagIn("check_urls", jobs)
    /\ listing' = get_all_tracked_urls(tracked_urls)
    /\ IF listing' = <<>>
       THEN sweep_pc' = "idle" /\ idx' = 0 /\ instances' = instances
       ELSE sweep_pc' = "check" /\ idx' = 1 /\ instances' = instances + 1
    /\ new_slots' = <<>>
    /\ results' = <<>>
    /\ UNCHANGED dbvars
    /\ UNCHANGED <<call, registered>>
    /\ UNCHANGED <<scheduler_running, jobs>>
    /\ UNCHANGED mainvars

\* The interval trigger of job 'check_urls' fires.  With max_instances runs
\* in progress the run is skipped; else check_all_urls starts and runs to its
\* first await: it returns at once when nothing is tracked.
Tick ==
    /\ scheduler_running
    /\ BagIn("check_urls", jobs)
    /\ IF instances < max_instances
       THEN /\ listing' = get_all_tracked_urls(tracked_urls)
            /\ IF listing' = <<>>
               THEN sweep_pc' = "idle" /\ idx' = 0 /\ instances' = instances
               ELSE sweep_pc' = "check" /\ idx' = 1 /\ instances' = instances + 1
            /\ new_slots' = <<>>
            /\ results' = <<>>
       ELSE UNCHANGED <<sweepvars, instances>>
    /\ UNCHANGED dbvars
    /\ UNCHANGED <<call, registered>>
    /\ UNCHANGED <<scheduler_running, jobs>>
    /\ UNCHANGED mainvars

\* check_url without `if new_slots:`: it saves and sends whatever the diff is.
check_url_always_sends(fetched) ==
    /\ sweep_pc = "check"
    /\ LET tracked_url_id == listing[idx].id
           new == get_new_slots(time_slots, tracked_url_id, fetched)
       IN /\ new_slots' = new
          /\ time_slots' = save_time_slots(time_slots, tracked_url_id, new, FALSE)
          /\ sweep_pc' = "send"
          /\ results' = results
    /\ UNCHANGED <<tracked_urls, seq_tracked>>
    /\ UNCHANGED <<listing, idx>>
    /\ UNCHANGED call
    /\ UNCHANGED schedvars
    /\ UNCHANGED mainvars

\* check_url that saves the new slots as already notified, before the send.
check_url_marks_first(fetched) ==
    /\ sweep_pc = "check"
    /\ LET tracked_url_id == listing[idx].id
           new == get_new_slots(time_slots, tracked_url_id, fetched)
       IN /\ new_slots' = new
          /\ IF new # <<>>
             THEN /\ time_slots' = save_time_slots(time_slots, tracked_url_id, new, TRUE)
                  /\ sweep_pc' = "send"
                  /\ results' = results
             ELSE /\ time_slots' = time_slots
                  /\ sweep_pc' = "sleep"
                  /\ results' = Append(results, "no_new")
    /\ UNCHANGED <<tracked_urls, seq_tracked>>
    /\ UNCHANGED <<listing, idx>>
    /\ UNCHANGED call
    /\ UNCHANGED schedvars
    /\ UNCHANGED mainvars

\* check_url that first deletes the rows of the id whose start time the
\* scrape no longer returns.
check_url_deletes_gone(fetched) ==
    /\ sweep_pc = "check"
    /\ LET tracked_url_id == listing[idx].id
           new == get_new_slots(time_slots, tracked_url_id, fetched)
           gone == {x \in Rows(time_slots) :
                       /\ x.tracked_url_id = tracked_url_id
                       /\ x.start_time \notin {fetched[i].start_time : i \in 1..Len(fetched)}}
           kept == [x \in Rows(time_slots) \ gone |-> time_slots[x]]
       IN /\ new_slots' = new
          /\ IF new # <<>>
             THEN /\ time_slots' = save_time_slots(kept, tracked_url_id, new, FALSE)
                  /\ sweep_pc' = "send"
                  /\ results' = results
             ELSE /\ time_slots' = kept
                  /\ sweep_pc' = "sleep"
                  /\ results' = Append(results, "no_new")
    /\ UNCHANGED <<tracked_urls, seq_tracked>>
    /\ UNCHANGED <<listing, idx>>
    /\ UNCHANGED call
    /\ UNCHANGED schedvars
    /\ UNCHANGED mainvars

\* check_url from its start to its first await, the scrape returning
\* result['slots'] = fetched: get_new_slots, then either save_time_slots of
\* the new slots with is_notified=False (and on to the send), or nothing.
\* No await lies between these calls.
check_url(fetched) ==
    /\ sweep_pc = "check"
    /\ LET tracked_url_id == listing[idx].id
           new == get_new_slots(time_slots, tracked_url_id, fetched)
       IN /\ new_slots' = new
          /\ IF new # <<>>
             THEN /\ time_slots' = save_time_slots(time_slots, tracked_url_id, new, FALSE)
                  /\ sweep_pc' = "send"
                  /\ results' = results
             ELSE /\ time_slots' = time_slots
                  /\ sweep_pc' = "sleep"
                  /\ results' = Append(results, "no_new")
    /\ UNCHANGED <<tracked_urls, seq_tracked>>
    /\ UNCHANGED <<listing, idx>>
    /\ UNCHANGED call
    /\ UNCHANGED schedvars
    /\ UNCHANGED mainvars

CheckUrl(fetched) ==
    /\ check_url(fetched)
    /\ UNCHANGED registered

\* A NeedleScraperError that leaves check_url and ends the for loop.
ScrapeErrorAborts ==
    /\ sweep_pc = "check"
    /\ results' = Append(results, "scrape_error")
    /\ sweep_pc' = "finished"
    /\ UNCHANGED <<listing, idx, new_slots>>
    /\ UNCHANGED dbvars
    /\ UNCHANGED <<call, registered>>
    /\ UNCHANGED schedvars
    /\ UNCHANGED mainvars

\* check_url: scrape_needle_page(url) raises NeedleScraperError; it is logged
\* and check_url returns.
ScrapeError ==
    /\ sweep_pc = "check"
    /\ results' = Append(results, "scrape_error")
    /\ sweep_pc' = "sleep"
    /\ UNCHANGED <<listing, idx, new_slots>>
    /\ UNCHANGED dbvars
    /\ UNCHANGED <<call, registered>>
    /\ UNCHANGED schedvars
    /\ UNCHANGED mainvars

\* A failed send whose exception leaves check_url and the for loop of
\* check_all_urls: nothing is marked and the sweep ends.
SendNotificationAborts(ok) ==
    /\ sweep_pc = "send"
    /\ IF ok
       THEN /\ time_slots' = mark_slots_notified(time_slots, listing[idx].id,
                                                 [i \in 1..Len(new_slots) |-> new_slots[i].start_time])
            /\ results' = Append(results, "notified")
            /\ sweep_pc' = "sleep"
       ELSE /\ time_slots' = time_slots
            /\ results' = Append(results, "notify_failed")
            /\ sweep_pc' = "finished"
    /\ new_slots' = <<>>
    /\ UNCHANGED <<tracked_urls, seq_tracked>>
    /\ UNCHANGED <<listing, idx>>
    /\ UNCHANGED <<call, registered>>
    /\ UNCHANGED schedvars
    /\ UNCHANGED mainvars

\* The arguments of the send_new_slot_notification awaited at sweep_pc =
\* "send": user_id (the chat_id of the message) and url of the listed row, and
\* the new slots.
Notification ==
    [chat_id |-> listing[idx].user_id, url |-> listing[idx].url, slots |-> new_slots]

\* check_url that marks the slots only when the send succeeded.
SendNotificationMarksSent(ok) ==
    /\ sweep_pc = "send"
    /\ time_slots' = IF ok
                     THEN mark_slots_notified(time_slots, listing[idx].id,
                                              [i \in 1..Len(new_slots) |-> new_slots[i].start_time])
                     ELSE time_slots
    /\ results' = Append(results, IF ok THEN "notified" ELSE "notify_failed")
    /\ sweep_pc' = "sleep"
    /\ new_slots' = <<>>
    /\ UNCHANGED <<tracked_urls, seq_tracked>>
    /\ UNCHANGED <<listing, idx>>
    /\ UNCHANGED <<call, registered>>
    /\ UNCHANGED schedvars
    /\ UNCHANGED mainvars

\* A check_url that calls send_new_slot_notification once for every new slot.
SendNotificationPerSlot(ok) ==
    /\ sweep_pc = "send"
    /\ time_slots' = mark_slots_notified(time_slots, listing[idx].id,
                                         <<new_slots[1].start_time>>)
    /\ results' = Append(results, IF ok THEN "notified" ELSE "notify_failed")
    /\ new_slots' = Tail(new_slots)
    /\ sweep_pc' = IF Tail(new_slots) = <<>> THEN "sleep" ELSE "send"
    /\ UNCHANGED <<tracked_urls, seq_tracked>>
    /\ UNCHANGED <<listing, idx>>
    /\ UNCHANGED <<call, registered>>
    /\ UNCHANGED schedvars
    /\ UNCHANGED mainvars

\* check_url from the return of `await send_new_slot_notification(...)` to
\* its own return.  bot.send_message returns (ok), or raises and the
\* exception is logged and swallowed inside send_new_slot_notification: either way the
\* call returns normally and mark_slots_notified runs on the start times of
\* new_slots.
SendNotification(ok) ==
    /\ sweep_pc = "send"
    /\ LET start_times == [i \in 1..Len(new_slots) |-> new_slots[i].start_time]
       IN time_slots' = mark_slots_notified(time_slots, listing[idx].id, start_times)
    /\ results' = Append(results, IF ok THEN "notified" ELSE "notify_failed")
    /\ sweep_pc' = "sleep"
    /\ new_slots' = <<>>
    /\ UNCHANGED <<tracked_urls, seq_tracked>>
    /\ UNCHANGED <<listing, idx>>
    /\ UNCHANGED <<call, registered>>
    /\ UNCHANGED schedvars
    /\ UNCHANGED mainvars

\* A for loop that takes the same url again instead of the next.
NextUrlRepeats ==
    /\ sweep_pc = "sleep"
    /\ IF idx < Len(listing)
       THEN sweep_pc' = "check" /\ idx' = idx
       ELSE sweep_pc' = "finished" /\ idx' = idx
    /\ UNCHANGED <<listing, new_slots, results>>
    /\ UNCHANGED dbvars
    /\ UNCHANGED <<call, registered>>
    /\ UNCHANGED schedvars
    /\ UNCHANGED mainvars

\* A check_all_urls whose loop starts over at the first row after the last.
NextUrlWraps ==
    /\ sweep_pc = "sleep"
    /\ sweep_pc' = "check"
    /\ IF idx < Len(listing)
       THEN idx' = idx + 1 /\ results' = results
       ELSE idx' = 1 /\ results' = <<>>
    /\ UNCHANGED <<listing, new_slots>>
    /\ UNCHANGED dbvars
    /\ UNCHANGED <<call, registered>>
    /\ UNCHANGED schedvars
    /\ UNCHANGED mainvars

\* check_all_urls: asyncio.sleep(1) returns; the for loop goes on or ends.
NextUrl ==
    /\ sweep_pc = "sleep"
    /\ IF idx < Len(listing)
       THEN sweep_pc' = "check" /\ idx' = idx + 1
       ELSE sweep_pc' = "finished" /\ idx' = idx
    /\ UNCHANGED <<listing, new_slots, results>>
    /\ UNCHANGED dbvars
    /\ UNCHANGED <<call, registered>>
    /\ UNCHANGED schedvars
    /\ UNCHANGED mainvars

\* check_all_urls: "Finished checking all URLs"; the job instance ends.
Finish ==
    /\ sweep_pc = "finished"
    /\ sweep_pc' = "idle"
    /\ listing' = <<>>
    /\ idx' = 0
    /\ results' = <<>>
    /\ instances' = instances - 1
    /\ UNCHANGED <<new_slots>>
    /\ UNCHANGED dbvars
    /\ UNCHANGED <<call, registered>>
    /\ UNCHANGED <<scheduler_running, jobs>>
    /\ UNCHANGED mainvars

\* ---------------------------------------------------------------- main
\* class Config: TELEGRAM_BOT_TOKEN = os.getenv(...), an Optional[str] (<<>>
\* is None), and CHECK_INTERVAL_MINUTES = int(os.getenv(..., '5')).
Tokens == {<<>>, <<"">>, <<"token">>}
Intervals == {-1, 0, 1, 2}

\* The token set and the interval left at its default.
DefaultConfig == [TELEGRAM_BOT_TOKEN |-> <<"token">>, CHECK_INTERVAL_MINUTES |-> 5]

\* Config.validate that checks the token alone.
validate_token_only(cfg) ==
    ~(cfg.TELEGRAM_BOT_TOKEN = <<>> \/ cfg.TELEGRAM_BOT_TOKEN = <<"">>)

\* Config.validate: TRUE when it returns True, FALSE when it raises ValueError
\* (`not TELEGRAM_BOT_TOKEN`: None or the empty string; CHECK_INTERVAL_MINUTES < 1).
validate(cfg) ==
    IF cfg.TELEGRAM_BOT_TOKEN = <<>> \/ cfg.TELEGRAM_BOT_TOKEN = <<"">>
    THEN FALSE
    ELSE IF cfg.CHECK_INTERVAL_MINUTES < 1
         THEN FALSE
         ELSE TRUE

\* main() up to run_polling: Config.validate(); on ValueError sys.exit(1), else
\* the Application is built and run_polling is entered.
Main ==
    /\ main_pc = "main"
    /\ main_pc' = IF validate(config) THEN "run_polling" ELSE "exited"
    /\ UNCHANGED <<config, check_interval_minutes>>
    /\ UNCHANGED dbvars
    /\ UNCHANGED sweepvars
    /\ UNCHANGED <<call, registered>>
    /\ UNCHANGED schedvars

\* post_init, called by run_polling: Database(...) creates the tables that are
\* missing, the MonitorScheduler is constructed with
\* Config.CHECK_INTERVAL_MINUTES and started (the job added, the scheduler
\* running).
PostInit ==
    /\ main_pc = "run_polling"
    /\ check_interval_minutes' = <<config.CHECK_INTERVAL_MINUTES>>
    /\ jobs' = [j \in DOMAIN jobs \cup {"check_urls"} |->
                  IF j = "check_urls" THEN 1 ELSE jobs[j]]
    /\ scheduler_running' = TRUE
    /\ main_pc' = "polling"
    /\ UNCHANGED <<config, instances>>
    /\ UNCHANGED dbvars
    /\ UNCHANGED sweepvars
    /\ UNCHANGED <<call, registered>>

\* ------------------------------------------------------- specification
\* The application once post_init has run: the tables are created and the
\* scheduler is started.
Init ==
    /\ tracked_urls = {}
    /\ seq_tracked = 0
    /\ time_slots = EmptyBag
    /\ sweep_pc = "idle"
    /\ listing = <<>>
    /\ idx = 0
    /\ new_slots = <<>>
    /\ results = <<>>
    /\ call = NoCall
    /\ registered = <<>>
    /\ scheduler_running = TRUE
    /\ jobs = SetToBag({"check_urls"})
    /\ instances = 0
    /\ main_pc = "polling"
    /\ config = DefaultConfig
    /\ check_interval_minutes = <<config.CHECK_INTERVAL_MINUTES>>

Next ==
    \/ \E u \in Users, url \in Urls, f \in {<<>>} \cup {<<l>> : l \in SeedLists} :
          AddCommand(u, url, f)
    \/ \E u \in Users, url \in Urls : RemoveCommand(u, url)
    \/ Tick
    \/ \E f \in FetchLists : CheckUrl(f)
    \/ ScrapeError
    \/ \E ok \in BOOLEAN : SendNotification(ok)
    \/ NextUrl
    \/ Finish

Spec == Init /\ [][Next]_vars

\* ------------------------------------------------- direct Database calls
\* The Database under a direct caller (as in src/tests): one method call on
\* any database the schema allows.  Slot rows may belong to an id whose
\* tracked_urls row is gone, and may carry either is_notified value.
DbIds == {1, 2}

UniqueSlotKeys(rows) ==
    \A x \in rows, y \in rows :
        SameKey(x, y.tracked_url_id, y.start_time) => x = y

UniqueTracked(rows) ==
    \A r \in rows, q \in rows :
        (r.id = q.id \/ (r.user_id = q.user_id /\ r.url = q.url)) => r = q

ValidStores ==
    {SetToBag(rows) :
        rows \in {q \in SUBSET {SlotRow(id, slot, n) : id \in DbIds, slot \in Slots, n \in BOOLEAN} :
                    UniqueSlotKeys(q)}}

ValidTracked ==
    {rows \in SUBSET [id : DbIds, user_id : Users, url : Urls] : UniqueTracked(rows)}

DbInit ==
    /\ tracked_urls \in ValidTracked
    /\ seq_tracked = Cardinality(DbIds)
    /\ time_slots \in ValidStores
    /\ sweep_pc = "idle"
    /\ listing = <<>>
    /\ idx = 0
    /\ new_slots = <<>>
    /\ results = <<>>
    /\ call = NoCall
    /\ registered = <<>>
    /\ scheduler_running = FALSE
    /\ jobs = EmptyBag
    /\ instances = 0
    /\ main_pc = "none"
    /\ config = DefaultConfig
    /\ check_interval_minutes = <<>>

CallGetNewSlots(tracked_url_id, slots) ==
    /\ call = NoCall
    /\ call' = [op |-> "get_new_slots", tracked_url_id |-> tracked_url_id, slots |-> slots,
                ret |-> get_new_slots(time_slots, tracked_url_id, slots)]
    /\ UNCHANGED dbvars
    /\ UNCHANGED sweepvars
    /\ UNCHANGED registered
    /\ UNCHANGED schedvars
    /\ UNCHANGED mainvars

CallSaveTimeSlots(tracked_url_id, slots, is_notified) ==
    /\ call = NoCall
    /\ time_slots' = save_time_slots(time_slots, tracked_url_id, slots, is_notified)
    /\ call' = [op |-> "save_time_slots", tracked_url_id |-> tracked_url_id, slots |-> slots,
                is_notified |-> is_notified, ret |-> Len(slots)]
    /\ UNCHANGED <<tracked_urls, seq_tracked>>
    /\ UNCHANGED sweepvars
    /\ UNCHANGED registered
    /\ UNCHANGED schedvars
    /\ UNCHANGED mainvars

CallAddTrackedUrl(user_id, url) ==
    /\ call = NoCall
    /\ LET added == add_tracked_url(tracked_urls, seq_tracked, user_id, url)
       IN /\ tracked_urls' = added.tracked_urls
          /\ seq_tracked' = added.seq
          /\ call' = [op |-> "add_tracked_url", user_id |-> user_id, url |-> url,
                      ret |-> added.ret]
    /\ UNCHANGED time_slots
    /\ UNCHANGED sweepvars
    /\ UNCHANGED registered
    /\ UNCHANGED schedvars
    /\ UNCHANGED mainvars

CallRemoveTrackedUrl(user_id, url) ==
    /\ call = NoCall
    /\ LET removed == remove_tracked_url(tracked_urls, time_slots, user_id, url)
       IN /\ tracked_urls' = removed.tracked_urls
          /\ time_slots' = removed.time_slots
          /\ call' = [op |-> "remove_tracked_url", user_id |-> user_id, url |-> url,
                      ret |-> removed.ret]
    /\ UNCHANGED seq_tracked
    /\ UNCHANGED sweepvars
    /\ UNCHANGED registered
    /\ UNCHANGED schedvars
    /\ UNCHANGED mainvars

CallMarkSlotsNotified(tracked_url_id, start_times) ==
    /\ call = NoCall
    /\ time_slots' = mark_slots_notified(time_slots, tracked_url_id, start_times)
    /\ call' = [op |-> "mark_slots_notified", tracked_url_id |-> tracked_url_id,
                start_times |-> start_times]
    /\ UNCHANGED <<tracked_urls, seq_tracked>>
    /\ UNCHANGED sweepvars
    /\ UNCHANGED registered
    /\ UNCHANGED schedvars
    /\ UNCHANGED mainvars

CallGetTimeSlots(tracked_url_id) ==
    /\ call = NoCall
    /\ call' = [op |-> "get_time_slots", tracked_url_id |-> tracked_url_id,
                ret |-> get_time_slots(time_slots, tracked_url_id)]
    /\ UNCHANGED dbvars
    /\ UNCHANGED sweepvars
    /\ UNCHANGED registered
    /\ UNCHANGED schedvars
    /\ UNCHANGED mainvars

DbNext ==
    \/ \E id \in DbIds, slots \in FetchLists : CallGetNewSlots(id, slots)
    \/ \E id \in DbIds, slots \in FetchLists, n \in BOOLEAN : CallSaveTimeSlots(id, slots, n)
    \/ \E id \in DbIds, start_times \in StartTimeLists : CallMarkSlotsNotified(id, start_times)
    \/ \E u \in Users, url \in Urls : CallAddTrackedUrl(u, url)
    \/ \E u \in Users, url \in Urls : CallRemoveTrackedUrl(u, url)
    \/ \E id \in DbIds : CallGetTimeSlots(id)

DbSpec == DbInit /\ [][DbNext]_vars

\* ------------------------------------------------- calls on tracked_urls
\* The Database under a direct caller of remove_tracked_url and
\* get_user_tracked_urls, on any tracked_urls table of up to two rows over
\* two urls.  Here the rows carry created_at: DEFAULT CURRENT_TIMESTAMP has a
\* resolution of one second, so rows inserted within a second share it, and a
\* row with a higher id was not created before one with a lower id.
DbUrls == {"X", "Y"}
Timestamps == {1, 2}

TrackedRows == [id : DbIds, user_id : Users, url : DbUrls, created_at : Timestamps]

ValidTrackedCreated ==
    {t \in {{}} \cup {{r, q} : r \in TrackedRows, q \in TrackedRows} :
        /\ UniqueTracked(t)
        /\ \A r \in t, q \in t : r.id < q.id => r.created_at <= q.created_at}

\* time_slots tables with one start time per id.
TrackedStores ==
    {SetToBag(rows) :
        rows \in {q \in SUBSET {SlotRow(id, [start_time |-> 1, end_time |-> 1], n) :
                                   id \in DbIds, n \in BOOLEAN} :
                    UniqueSlotKeys(q)}}

TrackedInit ==
    /\ tracked_urls \in ValidTrackedCreated
    /\ seq_tracked = Cardinality(DbIds)
    /\ time_slots \in TrackedStores
    /\ sweep_pc = "idle"
    /\ listing = <<>>
    /\ idx = 0
    /\ new_slots = <<>>
    /\ results = <<>>
    /\ call = NoCall
    /\ registered = <<>>
    /\ scheduler_running = FALSE
    /\ jobs = EmptyBag
    /\ instances = 0
    /\ main_pc = "none"
    /\ config = DefaultConfig
    /\ check_interval_minutes = <<>>

CallGetUserTrackedUrls(user_id) ==
    /\ call = NoCall
    /\ \E ret \in get_user_tracked_urls(tracked_urls, user_id) :
          call' = [op |-> "get_user_tracked_urls", user_id |-> user_id, ret |-> ret]
    /\ UNCHANGED dbvars
    /\ UNCHANGED sweepvars
    /\ UNCHANGED registered
    /\ UNCHANGED schedvars
    /\ UNCHANGED mainvars

TrackedNext ==
    \/ \E u \in Users, url \in DbUrls : CallRemoveTrackedUrl(u, url)
    \/ \E u \in Users : CallGetUserTrackedUrls(u)

TrackedSpec == TrackedInit /\ [][TrackedNext]_vars

\* ------------------------------------------------ MonitorScheduler calls
\* A MonitorScheduler just constructed, over any tracked_urls table, under a
\* caller of start() and stop(); call keeps the last of these calls.  The
\* callers run on the event loop, hence while the sweep is idle or suspended.

\* stop() without the shutdown of the scheduler.
StopKeepsRunning(cancel) ==
    /\ SweepSuspended
    /\ call' = [op |-> "stop"]
    /\ UNCHANGED <<scheduler_running, jobs, instances>>
    /\ UNCHANGED sweepvars
    /\ UNCHANGED dbvars
    /\ UNCHANGED registered
    /\ UNCHANGED mainvars

\* stop(): shutdown() when the scheduler is running, else nothing.  What
\* shutdown() does to a run of check_all_urls in progress is the executor's
\* business: it is cancelled at the await where it is suspended (cancel), or
\* left to go on.
Stop(cancel) ==
    /\ SweepSuspended
    /\ IF scheduler_running
       THEN /\ scheduler_running' = FALSE
            /\ IF cancel /\ sweep_pc # "idle"
               THEN /\ sweep_pc' = "idle"
                    /\ listing' = <<>>
                    /\ idx' = 0
                    /\ new_slots' = <<>>
                    /\ results' = <<>>
                    /\ instances' = instances - 1
               ELSE UNCHANGED <<sweepvars, instances>>
       ELSE UNCHANGED <<scheduler_running, sweepvars, instances>>
    /\ call' = [op |-> "stop"]
    /\ UNCHANGED jobs
    /\ UNCHANGED dbvars
    /\ UNCHANGED registered
    /\ UNCHANGED mainvars

\* start(): add_job(id='check_urls', replace_existing=True) puts the job in
\* the place of a job of that id, then scheduler.start() starts the
\* scheduler, or raises SchedulerAlreadyRunningError when it is running.
Start ==
    /\ SweepSuspended
    /\ jobs' = [j \in DOMAIN jobs \cup {"check_urls"} |->
                  IF j = "check_urls" THEN 1 ELSE jobs[j]]
    /\ scheduler_running' = TRUE
    /\ call' = [op |-> "start", raised |-> scheduler_running]
    /\ UNCHANGED instances
    /\ UNCHANGED sweepvars
    /\ UNCHANGED dbvars
    /\ UNCHANGED registered
    /\ UNCHANGED mainvars

SchedInit ==
    /\ tracked_urls \in ValidTracked
    /\ seq_tracked = Cardinality(DbIds)
    /\ time_slots = EmptyBag
    /\ sweep_pc = "idle"
    /\ listing = <<>>
    /\ idx = 0
    /\ new_slots = <<>>
    /\ results = <<>>
    /\ call = NoCall
    /\ registered = <<>>
    /\ scheduler_running = FALSE
    /\ jobs = EmptyBag
    /\ instances = 0
    /\ main_pc = "none"
    /\ config = DefaultConfig
    /\ check_interval_minutes = <<5>>

SchedNext ==
    \/ Start
    \/ \E cancel \in BOOLEAN : Stop(cancel)
    \/ Tick
    \/ \E f \in FetchLists : CheckUrl(f)
    \/ ScrapeError
    \/ \E ok \in BOOLEAN : SendNotification(ok)
    \/ NextUrl
    \/ Finish

SchedSpec == SchedInit /\ [][SchedNext]_vars

\* ---------------------------------------------------------- the process
\* The process from its start, with any configuration in the environment and
\* the tracked_urls table an earlier run left in the database file.
MainInit ==
    /\ tracked_urls \in ValidTracked
    /\ seq_tracked = Cardinality(DbIds)
    /\ time_slots = EmptyBag
    /\ sweep_pc = "idle"
    /\ listing = <<>>
    /\ idx = 0
    /\ new_slots = <<>>
    /\ results = <<>>
    /\ call = NoCall
    /\ registered = <<>>
    /\ scheduler_running = FALSE
    /\ jobs = EmptyBag
    /\ instances = 0
    /\ main_pc = "main"
    /\ config \in [TELEGRAM_BOT_TOKEN : Tokens, CHECK_INTERVAL_MINUTES : Intervals]
    /\ check_interval_minutes = <<>>

MainNext ==
    \/ Main
    \/ PostInit
    \/ Tick
    \/ \E f \in FetchLists : CheckUrl(f)
    \/ ScrapeError
    \/ \E ok \in BOOLEAN : SendNotification(ok)
    \/ NextUrl
    \/ Finish

MainSpec == MainInit /\ [][MainNext]_vars

\* ------------------------------------------------- sweeps on a failing store
\* The sweep when a Database call of check_url raises (sqlite3.Error: the
\* file is locked, the disk is full, ...).  The methods commit once, at their
\* end, so a call that raises has written nothing.

\* A Database error that leaves check_url and ends the for loop.
StoreErrorAborts ==
    /\ sweep_pc = "check"
    /\ results' = Append(results, "store_error")
    /\ sweep_pc' = "finished"
    /\ UNCHANGED <<listing, idx, new_slots>>
    /\ UNCHANGED dbvars
    /\ UNCHANGED <<call, registered>>
    /\ UNCHANGED schedvars
    /\ UNCHANGED mainvars

\* check_url: get_new_slots raises, or it returns new slots and
\* save_time_slots raises; `except Exception` logs it and check_url returns.
StoreErrorInCheckUrl ==
    /\ sweep_pc = "check"
    /\ results' = Append(results, "store_error")
    /\ sweep_pc' = "sleep"
    /\ UNCHANGED <<listing, idx, new_slots>>
    /\ UNCHANGED dbvars
    /\ UNCHANGED <<call, registered>>
    /\ UNCHANGED schedvars
    /\ UNCHANGED mainvars

\* check_url: the send has returned and mark_slots_notified raises; the rows
\* saved before the send stay as they are, `except Exception` logs it and
\* check_url returns.
StoreErrorInMark ==
    /\ sweep_pc = "send"
    /\ results' = Append(results, "store_error")
    /\ sweep_pc' = "sleep"
    /\ new_slots' = <<>>
    /\ UNCHANGED <<listing, idx>>
    /\ UNCHANGED dbvars
    /\ UNCHANGED <<call, registered>>
    /\ UNCHANGED schedvars
    /\ UNCHANGED mainvars

\* One step of a running check_all_urls: an awaited call (the scrape, the
\* send, asyncio.sleep) returns or raises and the coroutine runs to its next
\* await or to its end.
SweepStep ==
    \/ \E f \in FetchLists : CheckUrl(f)
    \/ ScrapeError
    \/ StoreErrorInCheckUrl
    \/ \E ok \in BOOLEAN : SendNotification(ok)
    \/ StoreErrorInMark
    \/ NextUrl
    \/ Finish

\* The scheduler started over any tracked_urls table and an empty time_slots.
FaultInit ==
    /\ tracked_urls \in ValidTracked
    /\ seq_tracked = Cardinality(DbIds)
    /\ time_slots = EmptyBag
    /\ sweep_pc = "idle"
    /\ listing = <<>>
    /\ idx = 0
    /\ new_slots = <<>>
    /\ results = <<>>
    /\ call = NoCall
    /\ registered = <<>>
    /\ scheduler_running = TRUE
    /\ jobs = SetToBag({"check_urls"})
    /\ instances = 0
    /\ main_pc = "polling"
    /\ config = DefaultConfig
    /\ check_interval_minutes = <<config.CHECK_INTERVAL_MINUTES>>

FaultNext ==
    \/ Tick
    \/ \E f \in FetchLists : CheckUrl(f)
    \/ ScrapeError
    \/ StoreErrorInCheckUrl
    \/ \E ok \in BOOLEAN : SendNotification(ok)
    \/ StoreErrorInMark
    \/ NextUrl
    \/ Finish

FaultSpec == FaultInit /\ [][FaultNext]_vars

\* FaultSpec with every awaited call of a sweep returning or raising in the
\* end, and the event loop resuming the coroutine: a sweep that can take a
\* step takes one, whichever.  Nothing is assumed of the trigger.
FairFaultSpec == FaultSpec /\ WF_vars(SweepStep)

\* ------------------------------------------- a registration and its sweeps
\* The program from an empty database, with one /add followed: registered
\* keeps the id it got, the slots its scrape returned (any list up to
\* MaxFetch), whether the last scrape of a sweep for that id returned only
\* such slots ("within") or not ("outside"), and whether an earlier one did not.
Register(user_id, url, slots) ==
    /\ registered = <<>>
    /\ add_command(user_id, url, <<slots>>)
    /\ registered' = IF tracked_urls' # tracked_urls
                     THEN <<[id |-> seq_tracked', slots |-> slots,
                             last |-> "none", strayed |-> FALSE]>>
                     ELSE registered

CheckUrlRegistered(fetched) ==
    /\ check_url(fetched)
    /\ registered' =
          IF registered # <<>> /\ listing[idx].id = registered[1].id
          THEN <<[registered[1] EXCEPT
                    !.last = IF Range(fetched) \subseteq Range(registered[1].slots)
                             THEN "within" ELSE "outside",
                    !.strayed = registered[1].strayed \/ registered[1].last = "outside"]>>
          ELSE registered

SeedNext ==
    \/ \E u \in Users, url \in Urls, slots \in FetchLists : Register(u, url, slots)
    \/ \E u \in Users, url \in Urls : RemoveCommand(u, url)
    \/ Tick
    \/ \E f \in FetchLists : CheckUrlRegistered(f)
    \/ ScrapeError
    \/ \E ok \in BOOLEAN : SendNotification(ok)
    \/ NextUrl
    \/ Finish

SeedSpec == Init /\ [][SeedNext]_vars

\* The same, on a database in which an earlier /add has left a row, so that
\* the registration followed may come while a sweep over that row is in
\* progress.
RegisterInit ==
    /\ tracked_urls \in {{}} \cup {{[id |-> 1, user_id |-> u, url |-> url]} : u \in Users, url \in Urls}
    /\ seq_tracked = 1
    /\ time_slots = EmptyBag
    /\ sweep_pc = "idle"
    /\ listing = <<>>
    /\ idx = 0
    /\ new_slots = <<>>
    /\ results = <<>>
    /\ call = NoCall
    /\ registered = <<>>
    /\ scheduler_running = TRUE
    /\ jobs = SetToBag({"check_urls"})
    /\ instances = 0
    /\ main_pc = "polling"
    /\ config = DefaultConfig
    /\ check_interval_minutes = <<config.CHECK_INTERVAL_MINUTES>>

RegisterNext ==
    \/ \E u \in Users, url \in Urls, slots \in SeedLists : Register(u, url, slots)
    \/ \E u \in Users, url \in Urls : RemoveCommand(u, url)
    \/ Tick
    \/ \E f \in FetchLists : CheckUrlRegistered(f)
    \/ ScrapeError
    \/ \E ok \in BOOLEAN : SendNotification(ok)
    \/ NextUrl
    \/ Finish

RegisterSpec == RegisterInit /\ [][RegisterNext]_vars

\* ----------------------------------------------------------- properties
SlotRowsOf(ts, tracked_url_id) == {x \in Rows(ts) : x.tracked_url_id = tracked_url_id}

StoredPairs(ts, tracked_url_id) ==
    {<<x.start_time, x.end_time>> : x \in SlotRowsOf(ts, tracked_url_id)}

StartTimesOf(slots) == [i \in 1..Len(slots) |-> slots[i].start_time]

\* The k-th smallest element of a set of numbers.
KthSmallest(S, k) == CHOOSE i \in S : Cardinality({j \in S : j < i}) = k - 1

Last(s) == s[Len(s)]

\* No start time of the list comes with two end times.
OneEndPerStart(slots) ==
    \A i \in 1..Len(slots), j \in 1..Len(slots) :
        slots[i].start_time = slots[j].start_time => slots[i].end_time = slots[j].end_time

\* What a check_url of tracked_url_id leaves of the table ts when the scrape
\* returns F: unchanged without new slots, else the new slots saved and then
\* marked.
AfterCheckUrl(ts, tracked_url_id, F) ==
    LET new == get_new_slots(ts, tracked_url_id, F)
    IN IF new = <<>>
       THEN ts
       ELSE mark_slots_notified(save_time_slots(ts, tracked_url_id, new, FALSE),
                                tracked_url_id, StartTimesOf(new))

C2_DiffNew ==
    [][call'.op = "get_new_slots" =>
        LET F == call'.slots
            keep == {i \in 1..Len(F) :
                       <<F[i].start_time, F[i].end_time>>
                           \notin StoredPairs(time_slots, call'.tracked_url_id)}
            ret == call'.ret
        IN /\ Len(ret) = Cardinality(keep)
           /\ \A k \in 1..Len(ret) : ret[k] = F[KthSmallest(keep, k)]
           /\ time_slots' = time_slots
           /\ tracked_urls' = tracked_urls
           /\ seq_tracked' = seq_tracked]_vars

\* C2 witness: a call that kept some slots of the list and dropped others.
C2_Witness ==
    /\ call.op = "get_new_slots"
    /\ Len(call.ret) >= 1
    /\ Len(call.ret) < Len(call.slots)

\* C3: with (T1, E1) stored for the id, a passed slot (T1, E2), E2 # E1, is in
\* the result of get_new_slots, and a passed slot (T1, E1) is not.
C3_ChangedEndTime ==
    [][call'.op = "get_new_slots" =>
        \A i \in 1..Len(call'.slots) :
            LET slot == call'.slots[i]
                rows == SlotRowsOf(time_slots, call'.tracked_url_id)
            IN /\ (\E x \in rows : x.start_time = slot.start_time /\ x.end_time # slot.end_time)
                    => slot \in Range(call'.ret)
               /\ (\E x \in rows : x.start_time = slot.start_time /\ x.end_time = slot.end_time)
                    => slot \notin Range(call'.ret)]_vars

\* C3 witness: a slot stored with another end time was passed and returned.
C3_Witness ==
    /\ call.op = "get_new_slots"
    /\ \E i \in 1..Len(call.slots) :
          /\ \E x \in SlotRowsOf(time_slots, call.tracked_url_id) :
                /\ x.start_time = call.slots[i].start_time
                /\ x.end_time # call.slots[i].end_time
          /\ call.slots[i] \in Range(call.ret)

\* C4: when the send of a check_url fails, the rows of the new slots of that
\* check_url stay is_notified = FALSE.
C4_FailedSendLeavesUnmarked ==
    [][(sweep_pc = "send" /\ sweep_pc' = "sleep" /\ results' = Append(results, "notify_failed")) =>
        \A x \in SlotRowsOf(time_slots', listing[idx].id) :
            x.start_time \in Range(StartTimesOf(new_slots)) => x.is_notified = FALSE]_vars

\* C5: a scrape error of one resource ends only its own check_url: every
\* resource of the listing gets its check_url, in order, and when one detects
\* new slots they are saved (the last slot of each start time, not yet
\* notified) before the send, which is always attempted.
C5_SweepIsolation ==
    /\ sweep_pc = "finished" => Len(results) = Len(listing)
    /\ sweep_pc \in {"check", "send"} => Len(results) = idx - 1
    /\ sweep_pc = "sleep" => Len(results) = idx
    /\ sweep_pc = "send" =>
          /\ new_slots # <<>>
          /\ \A i \in 1..Len(new_slots) :
                (\A j \in (i + 1)..Len(new_slots) : new_slots[j].start_time # new_slots[i].start_time)
                   => CopiesIn(SlotRow(listing[idx].id, new_slots[i], FALSE), time_slots) = 1

\* C5 witness: a sweep over two resources ended, the first scrape failed and
\* the second resource was notified.
C5_Witness ==
    /\ sweep_pc = "finished"
    /\ results = <<"scrape_error", "notified">>

\* C6: a removal that deletes a tracked_urls row leaves no time_slots row of
\* its id, and get_time_slots of the id is empty.
C6_Cascade ==
    [][\A r \in tracked_urls \ tracked_urls' :
          /\ SlotRowsOf(time_slots', r.id) = {}
          /\ get_time_slots(time_slots', r.id) = <<>>]_vars

\* C7: add_tracked_url of a tracked (user_id, url) returns None and changes
\* neither table, so one row holds the pair; of an untracked pair it returns
\* an id no row has and inserts the row.
C7_AddTracked ==
    [][call'.op = "add_tracked_url" =>
        LET same == {r \in tracked_urls : r.user_id = call'.user_id /\ r.url = call'.url}
        IN IF same # {}
           THEN /\ call'.ret = <<>>
                /\ tracked_urls' = tracked_urls
                /\ time_slots' = time_slots
                /\ Cardinality({r \in tracked_urls' :
                                   r.user_id = call'.user_id /\ r.url = call'.url}) = 1
           ELSE /\ Len(call'.ret) = 1
                /\ call'.ret[1] \notin {r.id : r \in tracked_urls}
                /\ tracked_urls' = tracked_urls \cup
                      {[id |-> call'.ret[1], user_id |-> call'.user_id, url |-> call'.url]}
                /\ time_slots' = time_slots]_vars

\* C7 witness: an add of a pair that was tracked returned None.
C7_Witness ==
    /\ call.op = "add_tracked_url"
    /\ call.ret = <<>>

\* C8: no two tracked_urls rows share (user_id, url).
C8_UniqueTracked ==
    \A r \in tracked_urls, q \in tracked_urls :
        (r.user_id = q.user_id /\ r.url = q.url) => r = q

\* C8 witness: two users track the same url, so every further /add of it is
\* an add of a tracked pair.
C8_Witness ==
    \E r \in tracked_urls, q \in tracked_urls : r # q /\ r.url = q.url

\* C9: save_time_slots run again with the same arguments leaves the table as
\* the first run left it, with one row per (tracked_url_id, start_time).
C9_IdempotentSave ==
    [][call'.op = "save_time_slots" =>
        /\ save_time_slots(time_slots', call'.tracked_url_id, call'.slots, call'.is_notified)
              = time_slots'
        /\ UniqueSlotKeys(Rows(time_slots'))
        /\ \A x \in Rows(time_slots') : time_slots'[x] = 1]_vars

\* C9 witness: a save of a list that names one start time twice, with two
\* end times, over a row that was stored for that start time.
C9_Witness ==
    /\ call.op = "save_time_slots"
    /\ Len(call.slots) = 2
    /\ call.slots[1].start_time = call.slots[2].start_time
    /\ call.slots[1].end_time # call.slots[2].end_time
    /\ Cardinality(SlotRowsOf(time_slots, call.tracked_url_id)) = 2

\* C10: time_slots holds at most one row per (tracked_url_id, start_time).
C10_UniqueSlots ==
    /\ UniqueSlotKeys(Rows(time_slots))
    /\ \A x \in Rows(time_slots) : time_slots[x] = 1

\* C10 witness: after a registration with seeded slots and a removal, a sweep
\* has overwritten a row of a second resource.
C10_Witness ==
    /\ sweep_pc = "sleep"
    /\ results # <<>>
    /\ Last(results) = "notified"
    /\ \E x \in Rows(time_slots) : x.tracked_url_id \notin {r.id : r \in tracked_urls}
    /\ Cardinality(SlotRowsOf(time_slots, listing[idx].id)) = 2

\* C11: after save_time_slots(id, S, f), for every start time t of S the table
\* holds one row (id, t), with the end time of the last slot of S that starts
\* at t and with is_notified = f, whatever was stored for (id, t) before; the
\* rows of id with another start time and the rows of other ids are as before.
C11_UpsertOverwrites ==
    [][call'.op = "save_time_slots" =>
        LET id == call'.tracked_url_id
            S == call'.slots
            f == call'.is_notified
            starts == Range(StartTimesOf(S))
            last(t) == S[CHOOSE i \in 1..Len(S) :
                            /\ S[i].start_time = t
                            /\ \A j \in (i + 1)..Len(S) : S[j].start_time # t]
        IN /\ \A t \in starts :
                 LET at == {x \in SlotRowsOf(time_slots', id) : x.start_time = t}
                 IN /\ at = {SlotRow(id, last(t), f)}
                    /\ \A x \in at : time_slots'[x] = 1
           /\ \A x \in Rows(time_slots) \cup Rows(time_slots') :
                 (x.tracked_url_id # id \/ x.start_time \notin starts)
                    => CopiesIn(x, time_slots') = CopiesIn(x, time_slots)
           /\ tracked_urls' = tracked_urls]_vars

\* C11 witness: a save with is_notified = False of a list that names a start
\* time twice has replaced a notified row of that start time, next to a row
\* of the same id with another start time.
C11_Witness ==
    /\ call.op = "save_time_slots"
    /\ call.is_notified = FALSE
    /\ Len(call.slots) = 2
    /\ call.slots[1].start_time = call.slots[2].start_time
    /\ call.slots[1].end_time # call.slots[2].end_time
    /\ \E x \in SlotRowsOf(time_slots, call.tracked_url_id) :
          x.start_time # call.slots[1].start_time /\ x.is_notified = TRUE

\* C12: mark_slots_notified(id, start_times) turns is_notified to True on the
\* rows of id whose start time is in start_times and changes nothing else: no
\* end time, no other row, no row count; with an empty list nothing changes.
C12_MarkNotified ==
    [][call'.op = "mark_slots_notified" =>
        LET id == call'.tracked_url_id
            hit(y) == y.tracked_url_id = id /\ y.start_time \in Range(call'.start_times)
        IN /\ \A y \in Rows(time_slots) :
                 CopiesIn([y EXCEPT !.is_notified = (y.is_notified \/ hit(y))], time_slots') = 1
           /\ Cardinality(Rows(time_slots')) = Cardinality(Rows(time_slots))
           /\ call'.start_times = <<>> => time_slots' = time_slots
           /\ tracked_urls' = tracked_urls]_vars

\* C12 witness: a call has marked a row of the id and left a row of the same
\* id, with a start time not passed, unnotified.
C12_Witness ==
    /\ call.op = "mark_slots_notified"
    /\ \E x \in SlotRowsOf(time_slots, call.tracked_url_id), y \in SlotRowsOf(time_slots, call.tracked_url_id) :
          /\ x.start_time \in Range(call.start_times)
          /\ x.is_notified = TRUE
          /\ y.start_time \notin Range(call.start_times)
          /\ y.is_notified = FALSE

\* A check_url of the registered id whose scrape returned only slots of the
\* scrape at registration goes on to send a notification.
NotifiesRegistrationSlots ==
    /\ registered # <<>>
    /\ sweep_pc = "check"
    /\ listing[idx].id = registered[1].id
    /\ sweep_pc' = "send"
    /\ registered'[1].last = "within"

C14_AfterStep ==
    sweep_pc = "check" =>
        \A F \in FetchLists :
            LET id == listing[idx].id
                new == get_new_slots(time_slots, id, F)
                after == AfterCheckUrl(time_slots, id, F)
            IN new # <<>> =>
                  /\ \A i \in 1..Len(F) :
                        (\A j \in 1..Len(F) : F[j].start_time = F[i].start_time => j = i)
                           => <<F[i].start_time, F[i].end_time>> \in StoredPairs(after, id)
                  /\ \A x \in SlotRowsOf(time_slots, id) :
                        x.start_time \notin Range(StartTimesOf(new))
                           => CopiesIn(x, after) = CopiesIn(x, time_slots)

\* C14, the steps: the check_url that goes on to the send was run on some
\* list F, hands to the notification the new slots of F computed on the table
\* as it was, and has saved them; while the send is awaited no row of the id
\* changes; after the send the start times of those slots are marked.
C14_Steps ==
    /\ (sweep_pc = "check" /\ sweep_pc' = "send") =>
          \E F \in FetchLists :
              /\ new_slots' = get_new_slots(time_slots, listing[idx].id, F)
              /\ time_slots' = save_time_slots(time_slots, listing[idx].id, new_slots', FALSE)
    /\ (sweep_pc = "send" /\ sweep_pc' = "send") =>
          /\ SlotRowsOf(time_slots', listing[idx].id) = SlotRowsOf(time_slots, listing[idx].id)
          /\ <<new_slots', listing', idx'>> = <<new_slots, listing, idx>>
    /\ (sweep_pc = "send" /\ sweep_pc' # "send") =>
          /\ sweep_pc' = "sleep"
          /\ SlotRowsOf(time_slots', listing[idx].id)
                = SlotRowsOf(mark_slots_notified(time_slots, listing[idx].id,
                                                 StartTimesOf(new_slots)), listing[idx].id)

\* C14: after a check_url whose scrape returned F and whose notification was
\* sent, every pair of F whose start time occurs once in F is stored for the
\* id, the stored slots of the id whose start time is not in the diff are
\* unchanged, and the notification carried the diff computed before the save.
C14_StepPostcondition == []C14_AfterStep /\ [][C14_Steps]_vars

\* C14 witness: a notified check_url has left two rows for its resource, both
\* notified, and the resource is still tracked.
C14_Witness ==
    /\ sweep_pc = "sleep"
    /\ Last(results) = "notified"
    /\ listing[idx] \in tracked_urls
    /\ Cardinality(SlotRowsOf(time_slots, listing[idx].id)) = 2
    /\ \A x \in SlotRowsOf(time_slots, listing[idx].id) : x.is_notified

\* C15: a check_url whose scrape raises NeedleScraperError writes and marks no
\* row, sends nothing, and returns to check_all_urls, which goes on to its
\* sleep and the next url.
C15_SourceError ==
    [][(sweep_pc = "check" /\ results' = Append(results, "scrape_error")) =>
          /\ time_slots' = time_slots
          /\ tracked_urls' = tracked_urls
          /\ sweep_pc' = "sleep"
          /\ <<listing', idx'>> = <<listing, idx>>]_vars

\* C15 witness: the scrape failed for a resource that has stored slots, in a
\* sweep with a resource still to come.
C15_Witness ==
    /\ sweep_pc = "sleep"
    /\ Last(results) = "scrape_error"
    /\ SlotRowsOf(time_slots, listing[idx].id) # {}
    /\ idx < Len(listing)

\* The rows of the id whose start time is a start time of the list slots.
RowsAt(ts, tracked_url_id, slots) ==
    {x \in SlotRowsOf(ts, tracked_url_id) : x.start_time \in Range(StartTimesOf(slots))}

\* C16, while the send is awaited: the new slots are stored, one row per
\* start time, and none of these rows is marked yet.
C16_SavedBeforeSend ==
    sweep_pc = "send" =>
        /\ new_slots # <<>>
        /\ Range(StartTimesOf(new_slots))
              = {x.start_time : x \in RowsAt(time_slots, listing[idx].id, new_slots)}
        /\ \A x \in RowsAt(time_slots, listing[idx].id, new_slots) :
              /\ x.is_notified = FALSE
              /\ <<x.start_time, x.end_time>>
                    \in {<<slot.start_time, slot.end_time>> : slot \in Range(new_slots)}

\* C16, the steps: the send is entered only from check_url's save; a stored
\* row turns from unnotified to notified only in the step that follows the
\* return of the send, only for the id and the start times just sent, and
\* that step marks all of them.
C16_Steps ==
    /\ (sweep_pc' = "send" /\ sweep_pc # "send") => sweep_pc = "check"
    /\ \A x \in Rows(time_slots) :
          (x.is_notified = FALSE /\ [x EXCEPT !.is_notified = TRUE] \in Rows(time_slots'))
             => /\ sweep_pc = "send" /\ sweep_pc' = "sleep"
                /\ x \in RowsAt(time_slots, listing[idx].id, new_slots)
    /\ (sweep_pc = "send" /\ sweep_pc' = "sleep") =>
          \A x \in RowsAt(time_slots', listing[idx].id, new_slots) : x.is_notified = TRUE

\* C16: with a non-empty diff, check_url first saves the diff with
\* is_notified = False, then sends, and calls mark_slots_notified, with the
\* start times of the slots sent, only after the send has returned.
C16_StepOrder == []C16_SavedBeforeSend /\ [][C16_Steps]_vars

\* C16 witness: the send of two new slots with two start times is awaited.
C16_Witness ==
    /\ sweep_pc = "send"
    /\ Len(new_slots) = 2
    /\ new_slots[1].start_time # new_slots[2].start_time

\* C17, the steps: a check_url that found no new slot changes no table and
\* does not go on to the send; the send is entered only by a check_url whose
\* diff, of some list F on the table as it was, is not empty.
C17_Steps ==
    /\ (sweep_pc = "check" /\ new_slots' = <<>>) =>
          /\ time_slots' = time_slots
          /\ tracked_urls' = tracked_urls
          /\ sweep_pc' = "sleep"
    /\ (sweep_pc' = "send" /\ sweep_pc # "send") =>
          /\ sweep_pc = "check"
          /\ \E F \in FetchLists :
                new_slots' = get_new_slots(time_slots, listing[idx].id, F) /\ new_slots' # <<>>

\* C17: with an empty diff check_url writes nothing and sends nothing; a
\* notification is sent only for a resource whose diff is not empty.
C17_EmptyDiff == [](sweep_pc = "send" => new_slots # <<>>) /\ [][C17_Steps]_vars

\* C17 witness: a check_url found nothing new for a resource with stored
\* slots, after a check_url of the same sweep that notified.
C17_Witness ==
    /\ sweep_pc = "sleep"
    /\ results = <<"notified", "no_new">>
    /\ SlotRowsOf(time_slots, listing[idx].id) # {}

\* C18: a run of check_all_urls starts only while the last call made to the
\* MonitorScheduler is start(): none starts after stop() until start() is
\* called again.  (A run in progress at stop() may go on: see the witness.)
C18_NoSweepAfterStop ==
    [][(instances' > instances \/ (sweep_pc = "idle" /\ sweep_pc' # "idle"))
          => (call.op = "start" /\ scheduler_running)]_vars

\* C18 witness: a run of check_all_urls that was in progress at stop() has
\* reached its end, with a notification sent, and no new run has started.
C18_Witness ==
    /\ call.op = "stop"
    /\ ~scheduler_running
    /\ sweep_pc = "finished"
    /\ "notified" \in Range(results)

\* C19: a second start() puts its job in the place of the first, so that
\* never more than one job 'check_urls' is armed, returns without an error
\* and leaves the scheduler running.
C19_ReentrantStart ==
    /\ [](BagCardinality(jobs) <= 1)
    /\ [][(call'.op = "start" /\ scheduler_running)
            => (call'.raised = FALSE /\ scheduler_running')]_vars

\* C20: never more than one run of check_all_urls is in progress, also when
\* the trigger fires during a run.
C20_NoOverlap ==
    /\ instances <= 1
    /\ instances = 0 <=> sweep_pc = "idle"

\* C20 witness: a run is in progress, suspended at the send, while the
\* scheduler is running with its job armed, so that the trigger can fire.
C20_Witness ==
    /\ instances = 1
    /\ sweep_pc = "send"
    /\ ENABLED Tick


\* C21: a failed send ends inside check_url: the for loop of check_all_urls
\* goes on to its sleep, and when the sweep ends every resource listed after
\* the one whose send failed has had its check_url.
C21_SendFailureContained ==
    \A i \in 1..Len(results) :
        results[i] = "notify_failed" =>
            /\ sweep_pc \in {"check", "send", "sleep", "finished"}
            /\ i <= Len(listing)
            /\ (i = Len(results) /\ sweep_pc # "finished") => idx >= i
            /\ sweep_pc = "finished" =>
                  \A j \in (i + 1)..Len(listing) :
                      j <= Len(results) /\ results[j] \in {"notified", "notify_failed", "no_new", "scrape_error"}

\* C21 witness: a sweep over two resources has ended; the send for the first
\* failed and the second resource was notified.
C21_Witness ==
    /\ sweep_pc = "finished"
    /\ results = <<"notify_failed", "notified">>


\* C22, the step: a check_url ended by a Database error leaves the sweep at
\* the sleep of the for loop, on the same url of the same listing, and has
\* changed no row of another resource and no tracked_urls row.
C22_Steps ==
    results' = Append(results, "store_error") =>
        /\ sweep_pc \in {"check", "send"}
        /\ sweep_pc' = "sleep"
        /\ <<listing', idx'>> = <<listing, idx>>
        /\ tracked_urls' = tracked_urls
        /\ \A x \in Rows(time_slots) \cup Rows(time_slots') :
              x.tracked_url_id # listing[idx].id
                 => CopiesIn(x, time_slots') = CopiesIn(x, time_slots)

\* C22, the sweep: after a Database error in the check_url of one resource,
\* the sweep ends with a result for every resource of its listing.
C22_SweepGoesOn ==
    \A i \in 1..Len(results) :
        results[i] = "store_error" =>
            /\ sweep_pc # "idle"
            /\ sweep_pc = "finished" => Len(results) = Len(listing)

\* C22: a Database error in get_new_slots, save_time_slots or
\* mark_slots_notified ends the check_url of that resource only; check_all_urls
\* goes on with the resources left and no exception leaves it.
C22_StoreFailureIsolated == []C22_SweepGoesOn /\ [][C22_Steps]_vars

\* C22 witness: a sweep over two resources has ended; for the first,
\* mark_slots_notified raised after the save (its rows are unmarked), and the
\* second was notified.
C22_Witness ==
    /\ sweep_pc = "finished"
    /\ results = <<"store_error", "notified">>
    /\ \E x \in SlotRowsOf(time_slots, listing[1].id) : x.is_notified = FALSE


\* C23: remove_tracked_url(user_id, url) returns True exactly when a row of
\* (user_id, url) was stored; it deletes that row alone: every other row of
\* tracked_urls (another user's, another url's) stays, with its slots, and a
\* call that returns False changes no table.
C23_RemoveTracked ==
    [][call'.op = "remove_tracked_url" =>
        LET same == {r \in tracked_urls : r.user_id = call'.user_id /\ r.url = call'.url}
        IN /\ call'.ret = (same # {})
           /\ Cardinality(same) <= 1
           /\ tracked_urls' = tracked_urls \ same
           /\ \A r \in tracked_urls \ same :
                 /\ r \in tracked_urls'
                 /\ \A x \in Rows(time_slots) \cup Rows(time_slots') :
                       x.tracked_url_id = r.id
                          => CopiesIn(x, time_slots') = CopiesIn(x, time_slots)
           /\ call'.ret = FALSE =>
                 /\ tracked_urls' = tracked_urls
                 /\ time_slots' = time_slots
                 /\ seq_tracked' = seq_tracked]_vars

\* C23 witness: a removal returned True while another user tracks the same
\* url, with a stored slot.
C23_Witness ==
    /\ call.op = "remove_tracked_url"
    /\ call.ret = TRUE
    /\ \E r \in tracked_urls :
          /\ r.url = call.url
          /\ r.user_id # call.user_id
          /\ SlotRowsOf(time_slots, r.id) # {}


\* C24: in every state, also while a sweep is suspended at an await and a
\* /remove runs, every time_slots row has the id of a tracked_urls row.
C24_ReferentialIntegrity ==
    \A x \in Rows(time_slots) : x.tracked_url_id \in {r.id : r \in tracked_urls}


\* The configuration the claim calls invalid.
ConfigInvalid ==
    \/ config.TELEGRAM_BOT_TOKEN \in {<<>>, <<"">>}
    \/ config.CHECK_INTERVAL_MINUTES < 1

\* C25, the states: with an invalid configuration main() is at its start or
\* has exited, no MonitorScheduler is constructed or running, no job is added
\* and no sweep runs; a running scheduler has an interval of at least 1.
C25_NoSchedulerOnInvalid ==
    /\ ConfigInvalid =>
          /\ main_pc \in {"main", "exited"}
          /\ check_interval_minutes = <<>>
          /\ ~scheduler_running
          /\ jobs = EmptyBag
          /\ sweep_pc = "idle" /\ instances = 0
    /\ scheduler_running =>
          /\ check_interval_minutes # <<>>
          /\ check_interval_minutes[1] >= 1

\* C25: an interval below 1 or a missing token ends the process in main(),
\* before the MonitorScheduler is constructed or started and before any sweep.
C25_InvalidConfigFatal ==
    /\ []C25_NoSchedulerOnInvalid
    /\ [][(main_pc = "main" /\ ConfigInvalid) => main_pc' = "exited"]_vars
    /\ [][main_pc = "exited" => main_pc' = "exited"]_vars

\* C25 witness: the process has exited on an interval of 0 with the token set.
C25_Witness ==
    /\ main_pc = "exited"
    /\ config.TELEGRAM_BOT_TOKEN = <<"token">>
    /\ config.CHECK_INTERVAL_MINUTES = 0


\* C26: the message a sweep sends goes to the user_id, and carries the url, of
\* the tracked_urls row under whose id its slots were found new and saved;
\* hence a user is sent a message only for a new slot of a row of their own.
C26_Routing ==
    /\ sweep_pc # "idle" =>
          \A i \in 1..Len(listing) : \A r \in tracked_urls :
              r.id = listing[i].id => (r.user_id = listing[i].user_id /\ r.url = listing[i].url)
    /\ sweep_pc = "send" =>
          /\ Notification.slots # <<>>
          /\ Range(StartTimesOf(Notification.slots))
                \subseteq {x.start_time : x \in SlotRowsOf(time_slots, listing[idx].id)}
          /\ \A r \in tracked_urls :
                r.id = listing[idx].id
                   => (Notification.chat_id = r.user_id /\ Notification.url = r.url)
          /\ \A r \in tracked_urls :
                r.user_id # Notification.chat_id => r.id # listing[idx].id

\* C26 witness: two users track a url; the check_url of the first found
\* nothing new and a message for new slots of the second is being sent.
C26_Witness ==
    /\ sweep_pc = "send"
    /\ idx = 2
    /\ results = <<"no_new">>
    /\ listing[1] \in tracked_urls /\ listing[2] \in tracked_urls
    /\ listing[1].user_id # listing[2].user_id
    /\ Notification.chat_id = listing[2].user_id


\* C27: get_user_tracked_urls(user_id) returns the tracked_urls rows of the
\* user, each once, the row created later before the row created earlier
\* (ids are handed out in the order of creation), also when rows share their
\* created_at.
C27_ListTracked ==
    [][call'.op = "get_user_tracked_urls" =>
        LET ret == call'.ret
            mine == {r \in tracked_urls : r.user_id = call'.user_id}
        IN /\ Len(ret) = Cardinality(mine)
           /\ \A r \in mine : \E i \in 1..Len(ret) : ret[i].id = r.id /\ ret[i].url = r.url
           /\ \A i \in 1..Len(ret), j \in 1..Len(ret) : i < j => ret[i].id > ret[j].id]_vars


\* C28: get_time_slots(id) returns the time_slots rows of the id, each once,
\* by ascending start time, and no row of another id; it changes no table.
C28_ListSlots ==
    [][call'.op = "get_time_slots" =>
        LET ret == call'.ret
            rows == SlotRowsOf(time_slots, call'.tracked_url_id)
            same(s, x) == /\ s.start_time = x.start_time
                          /\ s.end_time = x.end_time
                          /\ s.is_notified = x.is_notified
        IN /\ \A x \in rows :
                 Cardinality({i \in 1..Len(ret) : same(ret[i], x)}) = CopiesIn(x, time_slots)
           /\ \A i \in 1..Len(ret) : \E x \in rows : same(ret[i], x)
           /\ \A i \in 1..Len(ret), j \in 1..Len(ret) :
                 i < j => ret[i].start_time < ret[j].start_time
           /\ time_slots' = time_slots
           /\ tracked_urls' = tracked_urls]_vars

\* C28 witness: the call returned two rows of its id while the other id has a
\* row of its own.
C28_Witness ==
    /\ call.op = "get_time_slots"
    /\ Len(call.ret) = 2
    /\ \E x \in Rows(time_slots) : x.tracked_url_id # call.tracked_url_id


\* C29: a sweep takes the rows of the listing it read at its start one by
\* one, in order: no id is listed twice; when the check_url of position idx
\* is about to run, exactly the idx - 1 rows before it have had theirs, each
\* ended (its message sent and its rows marked); when the sweep ends every
\* row has had exactly one.
C29_OnceInOrder ==
    sweep_pc # "idle" =>
        /\ \A i \in 1..Len(listing), j \in 1..Len(listing) :
              listing[i].id = listing[j].id => i = j
        /\ idx \in 1..Len(listing)
        /\ Len(results) = IF sweep_pc \in {"check", "send"} THEN idx - 1 ELSE idx
        /\ sweep_pc = "finished" => idx = Len(listing)
        /\ sweep_pc # "send" => new_slots = <<>>
        /\ sweep_pc = "check" =>
              \A i \in 1..(idx - 1) :
                  \A x \in SlotRowsOf(time_slots, listing[i].id) : x.is_notified = TRUE

\* C29 witness: the first of two listed resources has been notified and its
\* rows marked, and the check_url of the second is about to run.
C29_Witness ==
    /\ sweep_pc = "check"
    /\ idx = 2
    /\ results = <<"notified">>
    /\ SlotRowsOf(time_slots, listing[1].id) # {}
    /\ SlotRowsOf(time_slots, listing[2].id) = {}


PairsOf(slots) == {<<slot.start_time, slot.end_time>> : slot \in Range(slots)}

\* C30: get_new_slots does not look at is_notified.  A row stored with
\* is_notified = False is never among the new slots of a check_url of its id
\* (so it is not sent), and it stays as it is, unmarked, through every step,
\* except when a scrape brings its start time with another end time (the row
\* is replaced) or when it is a slot of the diff whose send has just returned
\* (the mark of the step that saved it).
C30_DiffIgnoresFlag ==
    [][\A x \in Rows(time_slots) :
          x.is_notified = FALSE =>
             LET mine == sweep_pc \in {"check", "send"} /\ listing[idx].id = x.tracked_url_id
             IN /\ (sweep_pc = "check" /\ mine)
                     => <<x.start_time, x.end_time>> \notin PairsOf(new_slots')
                /\ \/ CopiesIn(x, time_slots') = 1
                   \/ /\ sweep_pc = "check" /\ mine
                      /\ \E slot \in Range(new_slots') :
                            slot.start_time = x.start_time /\ slot.end_time # x.end_time
                   \/ /\ sweep_pc = "send" /\ mine
                      /\ <<x.start_time, x.end_time>> \in PairsOf(new_slots)]_vars

\* C30 witness: a check_url has found nothing new for a resource that has a
\* row stored with is_notified = False (left by a mark_slots_notified that
\* raised), in a sweep later than the one that saved it.
C30_Witness ==
    /\ sweep_pc = "sleep"
    /\ Last(results) = "no_new"
    /\ \E x \in SlotRowsOf(time_slots, listing[idx].id) : x.is_notified = FALSE


\* Every row stored with is_notified = False is a slot of the diff whose send
\* is being awaited.
OnlySendUnmarked ==
    \A x \in Rows(time_slots) :
        x.is_notified = FALSE =>
            /\ sweep_pc = "send"
            /\ x.tracked_url_id = listing[idx].id
            /\ <<x.start_time, x.end_time>> \in PairsOf(new_slots)

\* The step after the send, succeeded or failed, leaves the rows of the
\* start times just sent marked.
C31_StepMarks ==
    (sweep_pc = "send" /\ sweep_pc' = "sleep") =>
        \A x \in RowsAt(time_slots', listing[idx].id, new_slots) : x.is_notified = TRUE

C32_NoNotificationAfterRemoval ==
    [][(sweep_pc = "check" /\ sweep_pc' = "send") =>
          \E r \in tracked_urls :
              r.user_id = listing[idx].user_id /\ r.url = listing[idx].url]_vars


\* C33, the states: from the state in which the registered row first exists
\* until a check_url of it has run, the rows of its id are the slots of the
\* scrape at registration (the last of each start time), all marked.
C33_SeedsStored ==
    (registered # <<>> /\ registered[1].last = "none") =>
        LET id == registered[1].id
            S == registered[1].slots
            seeds == {SlotRow(id, S[i], TRUE) :
                         i \in {k \in 1..Len(S) :
                                   \A j \in (k + 1)..Len(S) : S[j].start_time # S[k].start_time}}
        IN /\ SlotRowsOf(time_slots, id) = seeds
           /\ \A x \in seeds : time_slots[x] = 1

\* C33, the steps: a registration leaves a sweep in progress where it is, and
\* the new row is not in its listing; a sweep in progress never reads the
\* listing again.
C33_Steps ==
    /\ (registered = <<>> /\ registered' # <<>>) =>
          /\ <<sweep_pc', listing', idx'>> = <<sweep_pc, listing, idx>>
          /\ \A i \in 1..Len(listing') : listing'[i].id # registered'[1].id
    /\ (sweep_pc # "idle" /\ sweep_pc' # "idle") => listing' = listing

\* C33: add_command's add_tracked_url and seeding save_time_slots run without
\* an await between them, so a check_url never meets a registered row whose
\* registration slots are not stored, and a row added while a sweep is in
\* progress is not taken by that sweep.
C33_RegistrationAtomic == []C33_SeedsStored /\ [][C33_Steps]_vars

\* C33 witness: a row was registered, with a slot, while the sweep in
\* progress was awaiting a send: it is tracked, its slot is stored, and it is
\* not in the listing of the sweep.
C33_Witness ==
    /\ registered # <<>>
    /\ registered[1].slots # <<>>
    /\ sweep_pc = "send"
    /\ \A i \in 1..Len(listing) : listing[i].id # registered[1].id
    /\ \E r \in tracked_urls : r.id = registered[1].id
    /\ SlotRowsOf(time_slots, registered[1].id) # {}


\* The ids in use: of the tracked_urls rows, of the time_slots rows and of
\* the rows listed by the sweep in progress.
IdsInUse ==
    {r.id : r \in tracked_urls} \cup {x.tracked_url_id : x \in Rows(time_slots)}
        \cup {listing[i].id : i \in 1..Len(listing)}

\* C34: every id handed out is larger than every id handed out before, also
\* after removals: the row an /add inserts has an id that no tracked_urls
\* row, no time_slots row and no row listed by a sweep in progress had, so it
\* starts with the slots of its own registration alone, and what a sweep in
\* progress writes for a removed id goes to no other row.
C34_IdsNeverReused ==
    /\ [](\A id \in IdsInUse : id <= seq_tracked)
    /\ [][seq_tracked' >= seq_tracked]_vars
    /\ [][\A r \in tracked_urls' \ tracked_urls :
             /\ r.id > seq_tracked
             /\ r.id \notin IdsInUse
             /\ \A x \in SlotRowsOf(time_slots', r.id) : x.is_notified = TRUE]_vars

\* C34 witness: user 1 has removed a url and added it again under a new id,
\* while the rows saved for the old id are still stored, and a sweep that
\* listed the old id is awaiting a send.
C34_Witness ==
    /\ sweep_pc = "send"
    /\ \E r \in tracked_urls :
          /\ r.id = 2
          /\ listing[idx].id = 1
          /\ listing[idx].user_id = r.user_id /\ listing[idx].url = r.url
    /\ SlotRowsOf(time_slots, 1) # {}


\* C35: no step of a sweep takes a (tracked_url_id, start_time) out of
\* time_slots; a check_url changes a stored row of its id only when the
\* row's start time is among its new slots, and never counts a stored pair as
\* new: a slot whose start time a scrape does not return stays stored, and
\* when a later scrape returns it with the same end time it is not sent.
C35_NeverDeletes ==
    [][/\ \A x \in Rows(time_slots) :
             \E y \in Rows(time_slots') :
                 y.tracked_url_id = x.tracked_url_id /\ y.start_time = x.start_time
       /\ sweep_pc = "check" =>
             \A x \in SlotRowsOf(time_slots, listing[idx].id) :
                 /\ <<x.start_time, x.end_time>> \notin PairsOf(new_slots')
                 /\ x.start_time \notin Range(StartTimesOf(new_slots'))
                       => CopiesIn(x, time_slots') = 1]_vars

\* C35 witness: the first check_url of a sweep has found nothing new for a
\* resource that has rows of two start times, stored by earlier sweeps.
C35_Witness ==
    /\ sweep_pc = "sleep"
    /\ results = <<"no_new">>
    /\ Cardinality({x.start_time : x \in SlotRowsOf(time_slots, listing[idx].id)}) = 2


\* The rows of one tracked_url_id, as a table of their own.
OnlyRowsOf(ts, tracked_url_id) ==
    [x \in SlotRowsOf(ts, tracked_url_id) |-> ts[x]]

\* C36: get_new_slots, save_time_slots and mark_slots_notified called for an
\* id leave every row of every other id as it is, and what they return and
\* what they leave for the id is what they return and leave on a table that
\* holds the rows of that id alone: with the same pair stored for another id
\* or not, the slot is new for this id exactly when this id has no such row.
C36_PerResource ==
    [][call'.op \in {"get_new_slots", "save_time_slots", "mark_slots_notified"} =>
        LET id == call'.tracked_url_id
            own == OnlyRowsOf(time_slots, id)
        IN /\ \A other \in DbIds \ {id} :
                 OnlyRowsOf(time_slots', other) = OnlyRowsOf(time_slots, other)
           /\ call'.op = "get_new_slots" =>
                 /\ call'.ret = get_new_slots(own, id, call'.slots)
                 /\ \A slot \in Range(call'.slots) :
                       slot \in Range(call'.ret)
                          <=> <<slot.start_time, slot.end_time>> \notin StoredPairs(time_slots, id)
           /\ call'.op = "save_time_slots" =>
                 OnlyRowsOf(time_slots', id)
                    = save_time_slots(own, id, call'.slots, call'.is_notified)
           /\ call'.op = "mark_slots_notified" =>
                 OnlyRowsOf(time_slots', id)
                    = mark_slots_notified(own, id, call'.start_times)]_vars

\* C36 witness: get_new_slots for one id has returned a slot whose pair is
\* stored for the other id, and not returned a slot stored for its own.
C36_Witness ==
    /\ call.op = "get_new_slots"
    /\ Len(call.slots) = 2
    /\ Len(call.ret) = 1
    /\ \E other \in DbIds \ {call.tracked_url_id} :
          <<call.ret[1].start_time, call.ret[1].end_time>> \in StoredPairs(time_slots, other)
    /\ \E slot \in Range(call.slots) :
          /\ <<slot.start_time, slot.end_time>> \in StoredPairs(time_slots, call.tracked_url_id)
          /\ <<slot.start_time, slot.end_time>>
                \notin UNION {StoredPairs(time_slots, other) : other \in DbIds \ {call.tracked_url_id}}


\* The send_new_slot_notification calls of the sweep so far: those that have
\* returned, and the one awaited.
NotificationCalls ==
    Len(SelectSeq(results, LAMBDA r : r \in {"notified", "notify_failed"}))
       + (IF sweep_pc = "send" THEN 1 ELSE 0)

\* C37: a sweep makes at most one send_new_slot_notification call for each
\* row of its listing it has reached, so never more calls than rows listed;
\* the call carries every new slot of the row (every unmarked row of the id
\* is among its slots), and outside the call no row of a listed id is left
\* unmarked for a later one.
C37_OneNotification ==
    sweep_pc # "idle" =>
        /\ NotificationCalls <= idx
        /\ idx <= Len(listing)
        /\ sweep_pc = "send" =>
              /\ Len(results) = idx - 1
              /\ Notification.slots # <<>>
              /\ \A x \in SlotRowsOf(time_slots, listing[idx].id) :
                    x.is_notified = FALSE
                       => <<x.start_time, x.end_time>> \in PairsOf(Notification.slots)
        /\ sweep_pc # "send" =>
              \A i \in 1..Len(listing) :
                  \A x \in SlotRowsOf(time_slots, listing[i].id) : x.is_notified = TRUE

\* C37 witness: the second of two listed rows has its call awaited, with two
\* new slots in it, after the one call of the first.
C37_Witness ==
    /\ sweep_pc = "send"
    /\ Len(listing) = 2
    /\ idx = 2
    /\ results = <<"notified">>
    /\ Len(Notification.slots) = 2
    /\ Cardinality({x \in SlotRowsOf(time_slots, listing[idx].id) : x.is_notified = FALSE}) = 2


\* C38: a sweep that has started ends, whatever its scrapes, sends and
\* Database calls return or raise; and when get_all_tracked_urls returns no
\* row, the trigger leaves the sweep ended and time_slots, new_slots and
\* results as they were: no check_url, no save, no send.
C38_SweepTerminates ==
    /\ (sweep_pc # "idle") ~> (sweep_pc = "idle")
    /\ [](get_all_tracked_urls(tracked_urls) = <<>> /\ sweep_pc = "idle" =>
            ~ ENABLED (Tick /\ (sweep_pc' # "idle" \/ time_slots' # time_slots
                                 \/ new_slots' # <<>> \/ results' # <<>>)))

\* C38 witness: a sweep over two rows is about to end after a failed scrape
\* and a Database error.
C38_Witness ==
    /\ sweep_pc = "finished"
    /\ Len(listing) = 2
    /\ "scrape_error" \in Range(results)
    /\ "store_error" \in Range(results)

====
